---- MODULE Spec2Model ----
(***************************************************************************)
(* The architecture pass of the symbol builder (PythonArchBuilder):        *)
(* load_arch walks the syntax tree of one file-symbol and fills the symbol *)
(* graph with classes, functions, parameters and variables, binds imports  *)
(* (named and wildcard) and records cross-file dependencies.               *)
(*                                                                         *)
(* Names are sequences of one-character strings, so that the split on "."  *)
(* of a dotted import and the leading underscore of a name are computed.   *)
(* Symbols live in one arena (syms); a symbol is its index in the arena,   *)
(* the children of a container are the symbols whose parent it is, in      *)
(* insertion order.                                                        *)
(***************************************************************************)
EXTENDS Integers, Sequences, FiniteSets, TLC

\* Number of statements the walker visits, over all passes.
MaxStmts == 2
\* Nesting depth of the walk (bodies entered and not yet left).
MaxDepth == 2
\* Length of the lists and tuples the exports extractor is given.
MaxItems == 3

-----------------------------------------------------------------------------
(* Names *)

ALL_NAME == <<"_", "_", "a", "l", "l", "_", "_">>
STAR == <<"*">>
NoName == <<>>
NameA == <<"a">>
NameB == <<"_", "b">>
NameC == <<"c">>
NameZ == <<"z">>
DottedABC == <<"a", ".", "b", ".", "c">>

\* str::split(".").next(): the characters before the first ".".
RECURSIVE FirstSegment(_)
FirstSegment(s) ==
    IF s = <<>> \/ Head(s) = "." THEN <<>>
    ELSE <<Head(s)>> \o FirstSegment(Tail(s))

-----------------------------------------------------------------------------
(* Source ranges: the statement's ordinal, the part of it, an index. *)

NoRange == <<0, "none", 0>>
StmtRange(p) == <<p, "stmt", 0>>
AliasRange(p, i) == <<p, "alias", i>>
TargetRange(p, i) == <<p, "target", i>>
ParamRange(p, i) == <<p, "param", i>>
ValueRange(p) == <<p, "value", 0>>
LiteralRange(p, i) == <<p, "literal", i>>

-----------------------------------------------------------------------------
(* Evaluation values *)

StrLit(s) == [str |-> TRUE, value |-> s]
NotStr == [str |-> FALSE, value |-> <<>>]

NoValue == [tag |-> "None", c |-> NotStr, items |-> <<>>]
ANY == [tag |-> "ANY", c |-> NotStr, items |-> <<>>]
DICT == [tag |-> "DICT", c |-> NotStr, items |-> <<>>]
ConstantValue(e) == [tag |-> "CONSTANT", c |-> e, items |-> <<>>]
LIST(l) == [tag |-> "LIST", c |-> NotStr, items |-> l]
TUPLE(l) == [tag |-> "TUPLE", c |-> NotStr, items |-> l]

Evaluation(sym, value, range) == [symbol |-> sym, value |-> value, range |-> range]

\* The string-literal elements of a list, in order.
RECURSIVE StringItems(_)
StringItems(l) ==
    IF l = <<>> THEN <<>>
    ELSE (IF Head(l).str THEN <<Head(l).value>> ELSE <<>>) \o StringItems(Tail(l))

\* The string-literal elements of a list before its first other element.
RECURSIVE StringItemsUntilOther(_)
StringItemsUntilOther(l) ==
    IF l = <<>> \/ ~Head(l).str THEN <<>>
    ELSE <<Head(l).value>> \o StringItemsUntilOther(Tail(l))

\* A faulty variant of extract_all_symbol_eval_values: a list or tuple is left
\* at its first element that is not a string literal.
extract_all_symbol_eval_values_abort(value) ==
    CASE value.tag = "ANY" -> [names |-> <<>>, parse_error |-> TRUE]
      [] value.tag = "CONSTANT" ->
            IF value.c.str THEN [names |-> <<value.c.value>>, parse_error |-> FALSE]
            ELSE [names |-> <<>>, parse_error |-> TRUE]
      [] value.tag = "DICT" -> [names |-> <<>>, parse_error |-> TRUE]
      [] value.tag \in {"LIST", "TUPLE"} ->
            [names |-> StringItemsUntilOther(value.items),
             parse_error |-> \E i \in 1..Len(value.items) : ~value.items[i].str]
      [] OTHER -> [names |-> <<>>, parse_error |-> TRUE]

\* Lines 217-266.
extract_all_symbol_eval_values(value) ==
    CASE value.tag = "ANY" -> [names |-> <<>>, parse_error |-> TRUE]
      [] value.tag = "CONSTANT" ->
            IF value.c.str THEN [names |-> <<value.c.value>>, parse_error |-> FALSE]
            ELSE [names |-> <<>>, parse_error |-> TRUE]
      [] value.tag = "DICT" -> [names |-> <<>>, parse_error |-> TRUE]
      [] value.tag \in {"LIST", "TUPLE"} ->
            [names |-> StringItems(value.items),
             parse_error |-> \E i \in 1..Len(value.items) : ~value.items[i].str]
      [] OTHER -> [names |-> <<>>, parse_error |-> TRUE]

-----------------------------------------------------------------------------
(* Symbols *)

NoSym == 0
FILE_TYPES == {"ROOT", "NAMESPACE", "PACKAGE", "FILE", "COMPILED"}

NewSymbol(typ, name, parent, range, is_external) ==
    [typ |-> typ, name |-> name, parent |-> parent, range |-> range,
     is_external |-> is_external, is_import_variable |-> FALSE,
     is_parameter |-> FALSE, evaluations |-> <<>>, args |-> <<>>]

Ids(S) == [i \in 1..Len(S) |-> i]

\* Children of container p, in insertion order.
ChildIds(S, p) == SelectSeq(Ids(S), LAMBDA i : S[i].parent = p)

\* get_content_symbol(name, u32::MAX): every binding of name in p, in insertion order.
get_content_symbol(S, p, name) ==
    SelectSeq(Ids(S), LAMBDA i : S[i].parent = p /\ S[i].name = name)

\* iter_symbols: the names of p's name map (each once; the map keeps no order
\* between names, the order of first binding is taken).
iter_symbols(S, p) ==
    LET first == SelectSeq(ChildIds(S, p),
                     LAMBDA i : \A j \in 1..(i - 1) :
                         ~(S[j].parent = p /\ S[j].name = S[i].name))
    IN  [k \in 1..Len(first) |-> S[first[k]].name]

RECURSIVE get_file(_, _)
get_file(S, i) ==
    IF i = NoSym THEN NoSym
    ELSE IF S[i].typ \in FILE_TYPES THEN i
    ELSE get_file(S, S[i].parent)

add_new_variable(S, parent, name, range) ==
    Append(S, NewSymbol("VARIABLE", name, parent, range, S[parent].is_external))

add_new_function(S, parent, name, range) ==
    Append(S, NewSymbol("FUNCTION", name, parent, range, S[parent].is_external))

add_new_class(S, parent, name, range) ==
    Append(S, NewSymbol("CLASS", name, parent, range, S[parent].is_external))

\* Evaluation::from_sections: one evaluation per binding, by weak reference, no value.
from_sections(loc_syms) ==
    [j \in 1..Len(loc_syms) |-> Evaluation(loc_syms[j], NoValue, NoRange)]

-----------------------------------------------------------------------------
(* The program's state *)

VARIABLES
    syms,                \* the symbol arena: file-symbols first, then what the passes create
    build_status,        \* Arch status of each file-symbol
    dependencies,        \* per file-symbol, the edges <<file, step, step>> it depends on
    not_found_paths,     \* per file-symbol, the entries <<step, path>>
    in_workspace,        \* per file-symbol
    not_found_symbols,   \* session.sync_odoo.not_found_symbols
    rebuild_arch_eval,   \* session.sync_odoo: the arch-eval queue, in order of enqueue
    file_diagnostics,    \* FileInfo: the diagnostics held under the Arch phase, per file
    published,           \* FileInfo::publish_diagnostics calls: <<file, diagnostics>>
    hooks,               \* PythonArchBuilderHooks calls: <<hook, symbol>>
    sym_stack,           \* PythonArchBuilder.sym_stack
    all_symbols_to_add,  \* PythonArchBuilder.__all_symbols_to_add
    diagnostics,         \* PythonArchBuilder.diagnostics
    pc,                  \* where load_arch stands
    frames,              \* the bodies visit_node has entered and not left, outermost first
    pos,                 \* ordinal of the last statement visited
    stmt                 \* the last statement visited (with the collaborators' answers)

graph == <<syms, build_status, dependencies, not_found_paths, in_workspace>>
session == <<not_found_symbols, rebuild_arch_eval, file_diagnostics, published, hooks>>
builder == <<sym_stack, all_symbols_to_add, diagnostics>>
vars == <<graph, session, builder, pc, frames, pos, stmt>>

\* The file-symbols: a package of the workspace, an external module, a namespace.
Files == {1, 2, 3}
NameP == <<"p">>
NameM == <<"m">>
NameN == <<"n">>
FileSymbols ==
    << NewSymbol("PACKAGE", NameP, NoSym, NoRange, FALSE),
       NewSymbol("FILE", NameM, NoSym, NoRange, TRUE),
       NewSymbol("NAMESPACE", NameN, NoSym, NoRange, FALSE) >>

\* symbol.paths().len() of each file-symbol; a namespace has several.
PathCount == <<1, 1, 2>>

\* FileMgr::is_in_workspace of the file's path.
is_in_workspace(f) == ~FileSymbols[f].is_external

NoStmt == [kind |-> "None"]

Init ==
    /\ syms = FileSymbols
    /\ build_status = [f \in Files |-> "PENDING"]
    /\ dependencies = [f \in Files |-> {}]
    /\ not_found_paths = [f \in Files |-> <<>>]
    /\ in_workspace = [f \in Files |-> FALSE]
    /\ not_found_symbols = {}
    /\ rebuild_arch_eval = <<>>
    /\ file_diagnostics = [f \in Files |-> <<>>]
    /\ published = <<>>
    /\ hooks = <<>>
    /\ sym_stack = <<>>
    /\ all_symbols_to_add = <<>>
    /\ diagnostics = <<>>
    /\ pc = "idle"
    /\ frames = <<>>
    /\ pos = 0
    /\ stmt = NoStmt

Range(s) == {s[i] : i \in 1..Len(s)}
Last(s) == s[Len(s)]

-----------------------------------------------------------------------------
(* Collaborators *)

\* resolve_import_stmt for a wildcard: the answers the resolver can give. Not
\* found, with the file tree of what it looked for; or found, with any
\* file-symbol of the graph as the target, whatever its Arch status.
resolve_import_stmt(range) ==
    {[found |-> FALSE, symbol |-> NoSym, file_tree |-> <<<<NameZ>>, <<NameC>>>>,
      range |-> range]}
    \cup {[found |-> TRUE, symbol |-> f, file_tree |-> <<<<FileSymbols[f].name>>, <<>>>>,
           range |-> range] : f \in Files}

\* Symbol::follow_ref(all, .., stop_on_value = true): an `__all__` variable with
\* its own evaluations is where the reference chain stops.
follow_ref(S, all) == <<all>>

-----------------------------------------------------------------------------
(* Import binder: create_local_symbols_from_import_stmt *)

\* What the binder changes: b = [syms, dependencies, not_found_paths,
\* not_found_symbols, diagnostics, panicked].

\* A faulty variant of WildcardHonored: the depth test is left out.
WildcardHonoredAnywhere(stack) == TRUE

\* Line 84: a wildcard is honoured only with the file-symbol alone on the stack.
WildcardHonored(stack) == Len(stack) = 1

\* A faulty variant of NotFoundEntry: the two halves of the file tree are swapped.
NotFoundEntrySwapped(import_result) ==
    <<"ARCH", import_result.file_tree[2] \o import_result.file_tree[1]>>

\* Lines 96-97: the entry pushed on not_found_paths.
NotFoundEntry(import_result) ==
    <<"ARCH", import_result.file_tree[1] \o import_result.file_tree[2]>>

\* Lines 94-98.
RegisterNotFound(b, cur, import_result) ==
    [b EXCEPT !.not_found_symbols = @ \cup {cur},
              !.not_found_paths = [@ EXCEPT ![cur] = Append(@, NotFoundEntry(import_result))]]

\* Lines 100-133: the filter read from the target's `__all__`.
AllNamesAllowed == [all_name_allowed |-> TRUE, name_filter |-> <<>>]

NameFilter(S, target) ==
    LET alls == get_content_symbol(S, target, ALL_NAME) IN
    IF alls = <<>> THEN AllNamesAllowed
    ELSE LET refs == follow_ref(S, alls[1]) IN
         IF refs = <<>> THEN AllNamesAllowed
         ELSE LET all == S[refs[1]] IN
              IF Len(all.evaluations) = 1 /\ all.evaluations[1].value # NoValue
              THEN [all_name_allowed |-> FALSE,
                    name_filter |->
                        extract_all_symbol_eval_values(all.evaluations[1].value).names]
              ELSE AllNamesAllowed

\* Line 137.
NameAllowed(flt, name) ==
    flt.all_name_allowed \/ name \in Range(flt.name_filter)

\* Lines 135-138: the read borrow on the target is held over the loop, and each
\* turn takes a write borrow on the top of the stack.
BorrowConflict(target, top, names) == names # <<>> /\ target = top

\* Lines 138-141: the Variable created for one name of the target.
ImportedVariable(S, top, target, name, range) ==
    [NewSymbol("VARIABLE", name, top, range, S[top].is_external) EXCEPT
        !.is_import_variable = TRUE,
        !.evaluations = from_sections(get_content_symbol(S, target, name))]

\* Lines 146-158: the files the new bindings' first evaluations live in, but the
\* importing file itself.
DependencyFiles(S, cur, dep_to_add) ==
    {get_file(S, S[v].evaluations[1].symbol) : v \in dep_to_add} \ {cur}

\* A faulty variant of add_dependency: the edge is labelled with the next phase.
add_dependency_arch_eval(deps, cur, files) ==
    [deps EXCEPT ![cur] = @ \cup {<<f, "ARCH_EVAL", "ARCH">> : f \in files}]

\* Line 155: add_dependency(.., BuildSteps::ARCH, BuildSteps::ARCH).
add_dependency(deps, cur, files) ==
    [deps EXCEPT ![cur] = @ \cup {<<f, "ARCH", "ARCH">> : f \in files}]

\* Lines 87-159, for one `*` alias at the top level.
WildcardImport(b, stack, p, import_result, follow_ref_diag) ==
    IF ~import_result.found THEN RegisterNotFound(b, stack[1], import_result)
    ELSE
      LET S == b.syms
          target == import_result.symbol
          top == Last(stack)
          has_all == get_content_symbol(S, target, ALL_NAME) # <<>>
          diags == IF has_all /\ follow_ref_diag
                   THEN Append(b.diagnostics, <<p, "follow_ref">>)
                   ELSE b.diagnostics
          flt == NameFilter(S, target)
          names == SelectSeq(iter_symbols(S, target), LAMBDA n : NameAllowed(flt, n))
      IN
      IF BorrowConflict(target, top, names)
      THEN [b EXCEPT !.diagnostics = diags, !.panicked = TRUE]
      ELSE
        LET S2 == S \o [k \in 1..Len(names) |->
                          ImportedVariable(S, top, target, names[k], import_result.range)]
            dep_to_add == (Len(S) + 1)..Len(S2)
        IN [b EXCEPT !.syms = S2,
                     !.diagnostics = diags,
                     !.dependencies =
                         add_dependency(@, stack[1], DependencyFiles(S2, stack[1], dep_to_add))]

\* A faulty variant of LocalName: the dotted name is not split.
LocalNameUnsplit(alias) ==
    IF alias.asname = NoName THEN alias.name ELSE alias.asname

\* Lines 161-165: the local name of a named alias.
LocalName(alias) ==
    IF alias.asname = NoName THEN FirstSegment(alias.name) ELSE alias.asname

\* A faulty variant of NamedImport: the alias is also recorded as a not-found dependency
\* of the file.
NamedImportRecorded(b, top, alias, range) ==
    [b EXCEPT !.syms =
        Append(@, [NewSymbol("VARIABLE", LocalName(alias), top, range,
                             b.syms[top].is_external)
                   EXCEPT !.is_import_variable = TRUE]),
              !.not_found_symbols = @ \cup {get_file(b.syms, top)},
              !.not_found_paths =
                  [@ EXCEPT ![get_file(b.syms, top)] = Append(@, <<"ARCH", <<alias.name>>>>)]]

\* Lines 160-168, for one named alias.
NamedImport(b, top, alias, range) ==
    [b EXCEPT !.syms =
        Append(@, [NewSymbol("VARIABLE", LocalName(alias), top, range,
                             b.syms[top].is_external)
                   EXCEPT !.is_import_variable = TRUE])]

\* Lines 82-170: the aliases of one statement, in order.
RECURSIVE create_local_symbols_from_import_stmt(_, _, _, _, _)
create_local_symbols_from_import_stmt(b, stack, p, s, i) ==
    IF i > Len(s.names) \/ b.panicked THEN b
    ELSE LET alias == s.names[i]
             b2 == IF alias.name = STAR
                   THEN IF WildcardHonored(stack)
                        THEN WildcardImport(b, stack, p, s.import_result, s.follow_ref_diag)
                        ELSE b
                   ELSE NamedImport(b, Last(stack), alias, AliasRange(p, i))
         IN create_local_symbols_from_import_stmt(b2, stack, p, s, i + 1)

-----------------------------------------------------------------------------
(* Assignments, definitions, deferred exports *)

\* Evaluation::eval_from_ast on the value of an `__all__` assignment: what the
\* evaluator answers is part of the statement (s.evals, s.eval_diag).
eval_from_ast(s, p) ==
    [evaluations |-> [k \in 1..Len(s.evals) |-> Evaluation(NoSym, s.evals[k], ValueRange(p))],
     diagnostics |-> IF s.eval_diag THEN <<<<p, "eval_from_ast">>>> ELSE <<>>]

\* Lines 296-309: the string literals of a LIST, each with the range of the
\* evaluation it comes from.
RECURSIVE SyntheticExports(_, _)
SyntheticExports(items, range) ==
    IF items = <<>> THEN <<>>
    ELSE (IF Head(items).str THEN <<<<Head(items).value, range>>>> ELSE <<>>)
         \o SyntheticExports(Tail(items), range)

\* Lines 290-311: what one `__all__` assignment adds to __all_symbols_to_add.
ExportsToAdd(evaluations, is_external) ==
    IF evaluations # <<>> /\ is_external /\ evaluations[1].value.tag = "LIST"
    THEN SyntheticExports(evaluations[1].value.items, evaluations[1].range)
    ELSE <<>>

\* Lines 278-315: a = [syms, diagnostics, all_symbols_to_add], targets from i on.
RECURSIVE visit_assign(_, _, _, _, _)
visit_assign(a, top, p, s, i) ==
    IF i > Len(s.targets) THEN a
    ELSE
      LET S1 == add_new_variable(a.syms, top, s.targets[i], TargetRange(p, i))
          v == Len(S1)
          special == s.targets[i] = ALL_NAME /\ s.has_value /\ S1[v].parent # NoSym
          eval == eval_from_ast(s, p)
          a2 == IF special
                THEN [syms |-> [S1 EXCEPT ![v].evaluations = eval.evaluations],
                      diagnostics |-> a.diagnostics \o eval.diagnostics,
                      all_symbols_to_add |-> a.all_symbols_to_add \o
                          ExportsToAdd(eval.evaluations, S1[top].is_external)]
                ELSE [a EXCEPT !.syms = S1]
      IN visit_assign(a2, top, p, s, i + 1)

\* Lines 268-276.
RECURSIVE visit_ann_assign(_, _, _, _, _)
visit_ann_assign(S, top, p, s, i) ==
    IF i > Len(s.targets) THEN S
    ELSE visit_ann_assign(add_new_variable(S, top, s.targets[i], TargetRange(p, i)),
                          top, p, s, i + 1)

\* Lines 337-346: the parameters of a function, from i on.
RECURSIVE AddParams(_, _, _, _, _)
AddParams(S, func, p, params, i) ==
    IF i > Len(params) THEN S
    ELSE LET S1 == add_new_variable(S, func, params[i], ParamRange(p, i))
             S2 == [S1 EXCEPT ![Len(S1)].is_parameter = TRUE,
                              ![func].args = Append(@, Len(S1))]
         IN AddParams(S2, func, p, params, i + 1)

\* Lines 393-396: the targets of a for loop, bound in the top of the stack.
RECURSIVE BindForTargets(_, _, _, _, _)
BindForTargets(S, top, p, targets, i) ==
    IF i > Len(targets) THEN S
    ELSE BindForTargets(add_new_variable(S, top, targets[i], TargetRange(p, i)),
                        top, p, targets, i + 1)

\* Lines 375-381.
RECURSIVE resolve_all_symbols(_, _, _)
resolve_all_symbols(S, top, to_add) ==
    IF to_add = <<>> THEN S
    ELSE LET symbol_name == Head(to_add)[1]
             range == Head(to_add)[2]
             S1 == IF get_content_symbol(S, top, symbol_name) = <<>>
                   THEN add_new_variable(S, top, symbol_name, range)
                   ELSE S
         IN resolve_all_symbols(S1, top, Tail(to_add))

-----------------------------------------------------------------------------
(* Statements the walker can meet *)

Alias(name, asname) == [name |-> name, asname |-> asname]

NamedAliases ==
    { <<Alias(DottedABC, NoName)>>,
      <<Alias(DottedABC, NameZ)>> }

WildcardAliases ==
    { <<Alias(STAR, NoName)>>,
      <<Alias(STAR, NoName), Alias(NameC, NoName)>> }

\* The file-symbols an import of the walked files can name.
ImportTargets == {1, 2}

\* `import ..` and `from .. import ..`: the resolver's answer comes with the
\* statement; the binder asks for it only for a wildcard.
ImportStmts(p) ==
    {[kind |-> "Import", names |-> n, import_result |-> r, follow_ref_diag |-> FALSE] :
        n \in NamedAliases,
        r \in {r \in resolve_import_stmt(StmtRange(p)) : r.symbol \in {NoSym, 2}}}
    \cup
    {[kind |-> "ImportFrom", names |-> n, import_result |-> r, follow_ref_diag |-> d] :
        n \in WildcardAliases,
        r \in {r \in resolve_import_stmt(StmtRange(p)) : r.symbol \in ImportTargets \cup {NoSym}},
        d \in BOOLEAN}

\* What the evaluator can answer for the value of an `__all__` assignment.
ExportValues ==
    { <<>>,
      <<NoValue>>,
      <<ANY>>,
      <<LIST(<<StrLit(NameA), StrLit(NameC)>>)>>,
      <<LIST(<<StrLit(NameC), StrLit(NameC)>>)>>,
      <<TUPLE(<<StrLit(NameA), NotStr>>)>>,
      <<LIST(<<StrLit(NameA)>>), LIST(<<StrLit(NameB)>>)>> }

AssignStmts ==
    {[kind |-> "Assign", targets |-> t, has_value |-> TRUE, evals |-> <<>>,
      eval_diag |-> FALSE] : t \in {<<NameA>>, <<NameB, NameC>>}}
    \cup
    UNION {{[kind |-> "Assign", targets |-> t, has_value |-> TRUE,
             evals |-> e, eval_diag |-> d] :
                t \in {<<ALL_NAME>>, <<NameA, ALL_NAME>>}, d \in {e = <<ANY>>, FALSE}} :
           e \in ExportValues}
    \cup
    {[kind |-> "Assign", targets |-> <<ALL_NAME>>, has_value |-> FALSE, evals |-> <<>>,
      eval_diag |-> FALSE]}

AnnAssignStmts ==
    {[kind |-> "AnnAssign", targets |-> <<NameA>>]}

NameF == <<"f">>
NameK == <<"K">>
NameX == <<"x">>
NameI == <<"i">>

FunctionDefStmts ==
    {[kind |-> "FunctionDef", name |-> NameF, params |-> ps] : ps \in {<<>>, <<NameX>>}}

ClassDefStmts == {[kind |-> "ClassDef", name |-> NameK]}

ForStmts == {[kind |-> "For", targets |-> <<NameI>>]}

-----------------------------------------------------------------------------
(* load_arch *)

\* Line 47: the kinds load_arch has nothing to extract from.
NothingToExtract(typ) == typ \in {"NAMESPACE", "ROOT", "COMPILED", "VARIABLE"}

\* Line 50.
StatusOnEntry == "IN_PROGRESS"

\* A faulty variant of StatusOnExit: the status is left as the walk had it.
StatusOnExitUnset == "IN_PROGRESS"

\* Line 77.
StatusOnExit == "DONE"

set_build_status(f, status) == [build_status EXCEPT ![f] = status]

\* PythonArchBuilder::new(symbol), then load_arch down to the walk (lines 44-68)
\* and, when the file manager delivers no tree, line 73.
LoadArchBegin(f) ==
    /\ pc \in {"idle", "returned"}
    /\ build_status[f] = "PENDING"
    /\ sym_stack' = <<f>>
    /\ all_symbols_to_add' = <<>>
    /\ diagnostics' = <<>>
    /\ frames' = <<>>
    /\ UNCHANGED <<syms, dependencies, not_found_paths, not_found_symbols,
                   rebuild_arch_eval, hooks, pos, stmt>>
    /\ IF NothingToExtract(syms[f].typ)
       THEN /\ pc' = "returned"
            /\ UNCHANGED <<build_status, in_workspace, file_diagnostics, published>>
       ELSE /\ build_status' = set_build_status(f, StatusOnEntry)
            /\ IF PathCount[f] # 1
               THEN /\ pc' = "panicked"
                    /\ UNCHANGED <<in_workspace, file_diagnostics, published>>
               ELSE /\ in_workspace' =
                          [in_workspace EXCEPT ![f] =
                              (syms[f].parent # NoSym /\ in_workspace[syms[f].parent])
                              \/ is_in_workspace(f)]
                    /\ file_diagnostics' = [file_diagnostics EXCEPT ![f] = diagnostics']
                    /\ \E has_ast \in BOOLEAN :
                         IF has_ast
                         THEN pc' = "walk" /\ UNCHANGED published
                         ELSE /\ pc' = "on_done"
                              /\ published' = Append(published, <<f, file_diagnostics'[f]>>)

Walking == pc = "walk" /\ pos < MaxStmts
TopIsFunction == syms[Last(sym_stack)].typ = "FUNCTION"

\* Lines 176-185.
VisitImport ==
    /\ Walking
    /\ \E s \in ImportStmts(pos + 1) :
         /\ s.follow_ref_diag =>
               /\ ~TopIsFunction /\ WildcardHonored(sym_stack) /\ s.import_result.found
               /\ get_content_symbol(syms, s.import_result.symbol, ALL_NAME) # <<>>
         /\ stmt' = s
         /\ pos' = pos + 1
         /\ LET b0 == [syms |-> syms, dependencies |-> dependencies,
                       not_found_paths |-> not_found_paths,
                       not_found_symbols |-> not_found_symbols,
                       diagnostics |-> diagnostics, panicked |-> FALSE]
                b == IF TopIsFunction THEN b0
                     ELSE create_local_symbols_from_import_stmt(b0, sym_stack, pos + 1, s, 1)
            IN /\ syms' = b.syms
               /\ dependencies' = b.dependencies
               /\ not_found_paths' = b.not_found_paths
               /\ not_found_symbols' = b.not_found_symbols
               /\ diagnostics' = b.diagnostics
               /\ pc' = IF b.panicked THEN "panicked" ELSE "walk"
    /\ UNCHANGED <<build_status, in_workspace, rebuild_arch_eval, file_diagnostics,
                   published, hooks, sym_stack, all_symbols_to_add, frames>>

\* Lines 191-195.
VisitAssign ==
    /\ Walking
    /\ \E s \in AssignStmts :
         /\ stmt' = s
         /\ pos' = pos + 1
         /\ LET a0 == [syms |-> syms, diagnostics |-> diagnostics,
                       all_symbols_to_add |-> all_symbols_to_add]
                a == IF TopIsFunction THEN a0
                     ELSE visit_assign(a0, Last(sym_stack), pos + 1, s, 1)
            IN /\ syms' = a.syms
               /\ diagnostics' = a.diagnostics
               /\ all_symbols_to_add' = a.all_symbols_to_add
    /\ UNCHANGED <<build_status, dependencies, not_found_paths, in_workspace, session,
                   sym_stack, pc, frames>>

\* Lines 186-190.
VisitAnnAssign ==
    /\ Walking
    /\ \E s \in AnnAssignStmts :
         /\ stmt' = s
         /\ pos' = pos + 1
         /\ syms' = IF TopIsFunction THEN syms
                    ELSE visit_ann_assign(syms, Last(sym_stack), pos + 1, s, 1)
    /\ UNCHANGED <<build_status, dependencies, not_found_paths, in_workspace, session,
                   builder, pc, frames>>

\* Lines 196-198 and visit_func_def down to the push (lines 317-348).
VisitFunctionDef ==
    /\ Walking
    /\ Len(frames) < MaxDepth
    /\ \E s \in FunctionDefStmts :
         /\ stmt' = s
         /\ pos' = pos + 1
         /\ LET S1 == add_new_function(syms, Last(sym_stack), s.name, StmtRange(pos + 1))
                sym == Len(S1)
            IN /\ syms' = AddParams(S1, sym, pos + 1, s.params, 1)
               /\ sym_stack' = Append(sym_stack, sym)
         /\ frames' = Append(frames, "function")
    /\ UNCHANGED <<build_status, dependencies, not_found_paths, in_workspace, session,
                   all_symbols_to_add, diagnostics, pc>>

\* Lines 199-201 and visit_class_def down to the push (lines 354-368).
VisitClassDef ==
    /\ Walking
    /\ Len(frames) < MaxDepth
    /\ \E s \in ClassDefStmts :
         /\ stmt' = s
         /\ pos' = pos + 1
         /\ syms' = add_new_class(syms, Last(sym_stack), s.name, StmtRange(pos + 1))
         /\ sym_stack' = Append(sym_stack, Len(syms'))
         /\ frames' = Append(frames, "class")
    /\ UNCHANGED <<build_status, dependencies, not_found_paths, in_workspace, session,
                   all_symbols_to_add, diagnostics, pc>>

\* Lines 202-207, visit_if and visit_try: the bodies are walked on the same stack.
VisitIfTry ==
    /\ Walking
    /\ Len(frames) < MaxDepth
    /\ \E k \in {"If", "Try"} :
         /\ stmt' = [kind |-> k]
         /\ frames' = Append(frames, k)
    /\ pos' = pos + 1
    /\ UNCHANGED <<graph, session, builder, pc>>

\* Lines 208-210 and visit_for (lines 392-401).
VisitFor ==
    /\ Walking
    /\ Len(frames) < MaxDepth
    /\ \E s \in ForStmts :
         /\ stmt' = s
         /\ syms' = BindForTargets(syms, Last(sym_stack), pos + 1, s.targets, 1)
    /\ pos' = pos + 1
    /\ frames' = Append(frames, "For")
    /\ UNCHANGED <<build_status, dependencies, not_found_paths, in_workspace, session,
                   builder, pc>>

\* Line 211.
VisitOther ==
    /\ Walking
    /\ stmt' = [kind |-> "Other"]
    /\ pos' = pos + 1
    /\ UNCHANGED <<graph, session, builder, pc, frames>>

\* The end of a body: the return of visit_node into visit_func_def (line 350),
\* visit_class_def (lines 370-371), visit_if, visit_for or visit_try.
EndBody ==
    /\ pc = "walk"
    /\ frames # <<>>
    /\ frames' = SubSeq(frames, 1, Len(frames) - 1)
    /\ sym_stack' = IF Last(frames) \in {"function", "class"}
                    THEN SubSeq(sym_stack, 1, Len(sym_stack) - 1)
                    ELSE sym_stack
    /\ hooks' = IF Last(frames) = "class"
                THEN Append(hooks, <<"on_class_def", Last(sym_stack)>>)
                ELSE hooks
    /\ UNCHANGED <<graph, not_found_symbols, rebuild_arch_eval, file_diagnostics,
                   published, all_symbols_to_add, diagnostics, pc, pos, stmt>>

\* The end of the top-level walk: lines 70-71.
EndWalk ==
    /\ pc = "walk"
    /\ frames = <<>>
    /\ syms' = resolve_all_symbols(syms, Last(sym_stack), all_symbols_to_add)
    /\ all_symbols_to_add' = <<>>
    /\ rebuild_arch_eval' = Append(rebuild_arch_eval, sym_stack[1])
    /\ pc' = "on_done"
    /\ UNCHANGED <<build_status, dependencies, not_found_paths, in_workspace,
                   not_found_symbols, file_diagnostics, published, hooks, sym_stack,
                   diagnostics, frames, pos, stmt>>

\* Line 75.
OnDone ==
    /\ pc = "on_done"
    /\ hooks' = Append(hooks, <<"on_done", sym_stack[1]>>)
    /\ pc' = "set_done"
    /\ UNCHANGED <<graph, not_found_symbols, rebuild_arch_eval, file_diagnostics,
                   published, builder, frames, pos, stmt>>

\* Lines 76-78.
LoadArchEnd ==
    /\ pc = "set_done"
    /\ build_status' = set_build_status(sym_stack[1], StatusOnExit)
    /\ pc' = "returned"
    /\ UNCHANGED <<syms, dependencies, not_found_paths, in_workspace, session, builder,
                   frames, pos, stmt>>

Next ==
    \/ \E f \in Files : LoadArchBegin(f)
    \/ VisitImport
    \/ VisitAssign
    \/ VisitAnnAssign
    \/ VisitFunctionDef
    \/ VisitClassDef
    \/ VisitIfTry
    \/ VisitFor
    \/ VisitOther
    \/ EndBody
    \/ EndWalk
    \/ OnDone
    \/ LoadArchEnd

Spec == Init /\ [][Next]_vars

-----------------------------------------------------------------------------
(* The exports extractor, over every value it can be given *)

\* The elements of a list or tuple: string literals and another expression.
ExportElems == {StrLit(NameA), StrLit(NameC), NotStr}

\* The values an evaluation can carry: absent, Any, Dict, a constant, a list or
\* a tuple of up to MaxItems elements.
EvaluationValues ==
    {NoValue, ANY, DICT}
    \cup {ConstantValue(e) : e \in ExportElems}
    \cup UNION {{LIST(l), TUPLE(l)} : l \in UNION {[1..k -> ExportElems] : k \in 0..MaxItems}}

\* The statements of the external module m: `a, c = ..` and `__all__ = v`, at
\* the ordinals -1 and 0 (the count of the statements starts after m's pass).
ExportingModuleStmts(v) ==
    << [kind |-> "Assign", targets |-> <<NameA, NameC>>, has_value |-> TRUE,
        evals |-> <<>>, eval_diag |-> FALSE],
       [kind |-> "Assign", targets |-> <<ALL_NAME>>, has_value |-> TRUE,
        evals |-> <<v>>, eval_diag |-> FALSE] >>

\* The symbols after load_arch on m with these statements: the two visits of
\* _visit_assign, then _resolve_all_symbols.
ExportingModule(v) ==
    LET a0 == [syms |-> FileSymbols, diagnostics |-> <<>>, all_symbols_to_add |-> <<>>]
        a1 == visit_assign(a0, 2, -1, ExportingModuleStmts(v)[1], 1)
        a2 == visit_assign(a1, 2, 0, ExportingModuleStmts(v)[2], 1)
    IN  resolve_all_symbols(a2.syms, 2, a2.all_symbols_to_add)

\* load_arch on m has returned, with `__all__` evaluated to any of the values.
InitExports ==
    \E v \in EvaluationValues :
        /\ syms = ExportingModule(v)
        /\ build_status = [f \in Files |-> IF f = 2 THEN StatusOnExit ELSE "PENDING"]
        /\ dependencies = [f \in Files |-> {}]
        /\ not_found_paths = [f \in Files |-> <<>>]
        /\ in_workspace = [f \in Files |-> FALSE]
        /\ not_found_symbols = {}
        /\ rebuild_arch_eval = <<2>>
        /\ file_diagnostics = [f \in Files |-> <<>>]
        /\ published = <<>>
        /\ hooks = << <<"on_done", 2>> >>
        /\ sym_stack = <<2>>
        /\ all_symbols_to_add = <<>>
        /\ diagnostics = <<>>
        /\ pc = "returned"
        /\ frames = <<>>
        /\ pos = 0
        /\ stmt = ExportingModuleStmts(v)[2]

\* The passes that follow, on files made of import statements.
NextExports ==
    \/ \E f \in Files : LoadArchBegin(f)
    \/ VisitImport
    \/ EndWalk
    \/ OnDone
    \/ LoadArchEnd

SpecExports == InitExports /\ [][NextExports]_vars

-----------------------------------------------------------------------------
(* Properties *)

\* The file-symbol the running pass is about.
Cur == sym_stack[1]

\* A step that visits one statement, and the symbols it creates.
VisitStep == pos' = pos + 1
Created == (Len(syms) + 1)..Len(syms')
Kids(f) == {i \in 1..Len(syms) : syms[i].parent = f}

\* A visit of an import statement that reaches the binder.
BinderStep(kind) ==
    VisitStep /\ stmt'.kind = kind /\ syms[Last(sym_stack)].typ # "FUNCTION"

StatusRank(st) ==
    CASE st = "PENDING" -> 0 [] st = "IN_PROGRESS" -> 1 [] st = "DONE" -> 2

\* C1: during a run of load_arch on a Package or Module that starts Pending,
\* the Arch status of no file-symbol ever decreases; it changes only from
\* Pending to InProgress and from InProgress to Done; it is InProgress through
\* the walk, the arch-eval enqueue and the completion hook, and Done when
\* load_arch has returned success.
C1_StatusLifecycle ==
    [][ /\ \A f \in Files :
             \/ build_status'[f] = build_status[f]
             \/ build_status[f] = "PENDING" /\ build_status'[f] = "IN_PROGRESS"
             \/ build_status[f] = "IN_PROGRESS" /\ build_status'[f] = "DONE"
        /\ \A f \in Files : StatusRank(build_status'[f]) >= StatusRank(build_status[f])
        /\ pc' \in {"walk", "on_done", "set_done"} =>
               build_status'[sym_stack'[1]] = "IN_PROGRESS"
        /\ (pc' = "returned" /\ syms'[sym_stack'[1]].typ \in {"PACKAGE", "FILE"}) =>
               build_status'[sym_stack'[1]] = "DONE"
      ]_vars

\* C1 witness: a pass that walked a tree and created children has returned
\* success with its file-symbol Done.
C1_Witness ==
    /\ pc = "returned"
    /\ sym_stack # <<>>
    /\ build_status[Cur] = "DONE"
    /\ Kids(Cur) # {}
    /\ <<"on_done", Cur>> \in Range(hooks)

\* C2: a top-level wildcard import that the resolver answers with a target
\* whose Arch status is not Done creates no binding from the target, and
\* records the not-found dependency (the not-found path and the not-found set).
C2_ArchBarrier ==
    [][ ( /\ BinderStep("ImportFrom")
          /\ Len(sym_stack) = 1
          /\ stmt'.import_result.found
          /\ build_status[stmt'.import_result.symbol] # "DONE" )
        => /\ \A i \in Created : syms'[i].evaluations = <<>>
           /\ Len(not_found_paths'[Cur]) = Len(not_found_paths[Cur]) + 1
           /\ Cur \in not_found_symbols'
      ]_vars

\* The names an alias list binds by name, and the symbols a wildcard creates:
\* a wildcard's Variables carry the resolver's range, a named alias' its own.
ByWildcard == {i \in Created : syms'[i].range = stmt'.import_result.range}
ByAlias(k) == {i \in Created : syms'[i].range = AliasRange(pos', k)}
NamedIndexes(s) == {k \in 1..Len(s.names) : s.names[k].name # STAR}
HasWildcard(s) == \E k \in 1..Len(s.names) : s.names[k].name = STAR

\* A visit of a `from .. import *` with the file-symbol alone on the stack.
TopLevelWildcard ==
    BinderStep("ImportFrom") /\ HasWildcard(stmt') /\ Len(sym_stack) = 1

\* The `__all__` of file-symbol m is one symbol with exactly one evaluation,
\* whose value is a list or tuple of string literals.
PureExportList(m) ==
    LET alls == get_content_symbol(syms, m, ALL_NAME) IN
    /\ Len(alls) = 1
    /\ Len(syms[alls[1]].evaluations) = 1
    /\ syms[alls[1]].evaluations[1].value.tag \in {"LIST", "TUPLE"}
    /\ \A e \in Range(syms[alls[1]].evaluations[1].value.items) : e.str

ExportList(m) ==
    {e.value : e \in Range(syms[get_content_symbol(syms, m, ALL_NAME)[1]]
                                .evaluations[1].value.items)}

TopLevelNames(m) == {syms[i].name : i \in Kids(m)}

\* C3: a top-level wildcard import from a module whose `__all__` is a pure list
\* or tuple of string literals L creates Variables named exactly the names of
\* L that are top-level names of the module, each with is_import_variable.
C3_ExportFilter ==
    [][ ( /\ TopLevelWildcard
          /\ stmt'.import_result.found
          /\ PureExportList(stmt'.import_result.symbol) )
        => /\ {syms'[i].name : i \in ByWildcard} =
                  ExportList(stmt'.import_result.symbol)
                  \cap TopLevelNames(stmt'.import_result.symbol)
           /\ \A i \in ByWildcard :
                  /\ syms'[i].parent = Cur
                  /\ syms'[i].typ = "VARIABLE"
                  /\ syms'[i].is_import_variable
      ]_vars

\* C3, for a target that is not the importing file-symbol itself.
C3_ExportFilterOtherFile ==
    [][ ( /\ TopLevelWildcard
          /\ stmt'.import_result.found
          /\ stmt'.import_result.symbol # Cur
          /\ PureExportList(stmt'.import_result.symbol) )
        => /\ {syms'[i].name : i \in ByWildcard} =
                  ExportList(stmt'.import_result.symbol)
                  \cap TopLevelNames(stmt'.import_result.symbol)
           /\ \A i \in ByWildcard :
                  /\ syms'[i].parent = Cur
                  /\ syms'[i].typ = "VARIABLE"
                  /\ syms'[i].is_import_variable
      ]_vars

\* A public name does not start with an underscore.
IsPublic(name) == name # <<>> /\ Head(name) # "_"

\* C4: a top-level wildcard import from a module with no `__all__` symbol binds
\* the top-level public names of the module, and only those (stated for a
\* module other than the importing file-symbol, so that the binder runs to the
\* end of the statement).
C4_PublicNamesOnly ==
    [][ ( /\ TopLevelWildcard
          /\ stmt'.import_result.found
          /\ stmt'.import_result.symbol # Cur
          /\ get_content_symbol(syms, stmt'.import_result.symbol, ALL_NAME) = <<>> )
        => {syms'[i].name : i \in ByWildcard} =
               {n \in TopLevelNames(stmt'.import_result.symbol) : IsPublic(n)}
      ]_vars

\* What the binder does where C4 speaks: the names bound are all the top-level
\* names of the module, public or not.
C4_EveryNameOtherFile ==
    [][ ( /\ TopLevelWildcard
          /\ stmt'.import_result.found
          /\ stmt'.import_result.symbol # Cur
          /\ get_content_symbol(syms, stmt'.import_result.symbol, ALL_NAME) = <<>> )
        => {syms'[i].name : i \in ByWildcard} =
               TopLevelNames(stmt'.import_result.symbol)
      ]_vars

\* C5: a wildcard met with more than the file-symbol on the stack has no
\* effect: no not-found path, nothing in the not-found set, no dependency
\* edge, no diagnostic of the resolution, no Variable of the wildcard; the
\* named aliases of the statement are still bound, one Variable each.
C5_WildcardConfinement ==
    [][ ( /\ BinderStep("ImportFrom")
          /\ HasWildcard(stmt')
          /\ Len(sym_stack) # 1 )
        => /\ not_found_paths' = not_found_paths
           /\ not_found_symbols' = not_found_symbols
           /\ dependencies' = dependencies
           /\ diagnostics' = diagnostics
           /\ pc' = pc
           /\ ByWildcard = {}
           /\ Cardinality(Created) = Cardinality(NamedIndexes(stmt'))
           /\ \A k \in NamedIndexes(stmt') : Cardinality(ByAlias(k)) = 1
      ]_vars

\* C5 witness: `from .. import *, c` has been visited in a class body, and the
\* class got the Variable of the named alias.
C5_Witness ==
    /\ pc = "walk"
    /\ stmt.kind = "ImportFrom"
    /\ Len(stmt.names) = 2
    /\ stmt.import_result.found
    /\ Len(sym_stack) = 2
    /\ syms[Last(sym_stack)].typ = "CLASS"
    /\ Last(syms).parent = Last(sym_stack)
    /\ Last(syms).range = AliasRange(pos, 2)
    /\ Kids(stmt.import_result.symbol) # {}

\* C6: after a top-level wildcard import, for every created binding and every
\* evaluation of it whose symbol lives in a file F other than the importing
\* file, the importing file-symbol has the edge (F, Arch, Arch); and no
\* file-symbol ever has a dependency edge to itself.
C6_DependencyEdge ==
    [][ /\ TopLevelWildcard =>
               \A i \in ByWildcard : \A k \in 1..Len(syms'[i].evaluations) :
                   LET F == get_file(syms', syms'[i].evaluations[k].symbol) IN
                   F # Cur => <<F, "ARCH", "ARCH">> \in dependencies'[Cur]
        /\ \A f \in Files : \A e \in dependencies'[f] : e[1] # f
      ]_vars

\* C6 witness: the package has bound a name of the module by a wildcard import
\* and has the edge to the module.
C6_Witness ==
    /\ stmt.kind = "ImportFrom"
    /\ sym_stack # <<>>
    /\ \E i \in Kids(Cur) :
           /\ syms[i].is_import_variable
           /\ syms[i].evaluations # <<>>
           /\ get_file(syms, syms[i].evaluations[1].symbol) # Cur
           /\ <<get_file(syms, syms[i].evaluations[1].symbol), "ARCH", "ARCH">>
                  \in dependencies[Cur]

\* C7: a named import whose target cannot be resolved registers a not-found
\* path on the importing file-symbol during the pass.
C7_NamedImportNotFound ==
    [][ ( /\ BinderStep("Import")
          /\ ~stmt'.import_result.found )
        => Len(not_found_paths'[Cur]) > Len(not_found_paths[Cur])
      ]_vars

\* C7, amended: a named import, whether its target can be resolved or not,
\* registers nothing during the pass: not_found_paths and the not-found set are
\* left as they were, and the Variable it binds has no evaluation; only a
\* top-level wildcard import that is not found changes not_found_paths.
C7_NamedImportRegistersNothing ==
    [][ /\ BinderStep("Import")
           => /\ not_found_paths' = not_found_paths
              /\ not_found_symbols' = not_found_symbols
              /\ dependencies' = dependencies
              /\ \A i \in Created : syms'[i].evaluations = <<>>
        /\ not_found_paths' # not_found_paths
           => TopLevelWildcard /\ ~stmt'.import_result.found
      ]_vars

\* C7 witness: an unresolvable `import a.b.c` was bound, and the file-symbol
\* has no not-found path.
C7_Witness ==
    /\ stmt.kind = "Import"
    /\ ~stmt.import_result.found
    /\ Last(syms).is_import_variable
    /\ Last(syms).range = AliasRange(pos, 1)
    /\ not_found_paths[Cur] = <<>>
    /\ Cur \notin not_found_symbols

\* C8: a top-level wildcard import the resolver does not find adds exactly one
\* entry (Arch, file_tree.0 ++ file_tree.1) to the file's not_found_paths and
\* puts the file-symbol in the not-found set; the wildcard creates no child and
\* no dependency edge, the walk goes on (with the next alias and the next
\* statements), and a pass that returns does so with the status Done.
C8_UnresolvedWildcard ==
    [][ /\ ( TopLevelWildcard /\ ~stmt'.import_result.found )
           => /\ not_found_paths' =
                     [not_found_paths EXCEPT ![Cur] =
                         Append(@, <<"ARCH", stmt'.import_result.file_tree[1]
                                             \o stmt'.import_result.file_tree[2]>>)]
              /\ Cur \in not_found_symbols'
              /\ ByWildcard = {}
              /\ Cardinality(Created) = Cardinality(NamedIndexes(stmt'))
              /\ dependencies' = dependencies
              /\ pc' = "walk"
              /\ frames' = frames
        /\ ( pc' = "returned" /\ not_found_paths'[sym_stack'[1]] # <<>> )
           => build_status'[sym_stack'[1]] = "DONE"
      ]_vars

\* C8 witness: a pass with an unresolved wildcard import, followed by a
\* statement that bound a name, has returned with the status Done.
C8_Witness ==
    /\ pc = "returned"
    /\ sym_stack # <<>>
    /\ build_status[Cur] = "DONE"
    /\ not_found_paths[Cur] = << <<"ARCH", <<NameZ, NameC>>>> >>
    /\ Cur \in not_found_symbols
    /\ dependencies[Cur] = {}
    /\ \E i \in Kids(Cur) : syms[i].range[1] > 1

\* The characters of a name before its first dot.
DotIndexes(name) == {k \in 1..Len(name) : name[k] = "."}
BeforeFirstDot(name) ==
    IF DotIndexes(name) = {} THEN name
    ELSE SubSeq(name, 1, (CHOOSE k \in DotIndexes(name) :
                              \A j \in DotIndexes(name) : k <= j) - 1)

\* C9: every named alias the binder processes adds exactly one Variable to the
\* top of the stack: named by the as-name, or else by the first dotted segment
\* of the imported name, with the range of the alias, is_import_variable and
\* no evaluation.
C9_DottedBinding ==
    [][ ( /\ \/ BinderStep("Import")
             \/ BinderStep("ImportFrom")
          /\ pc' # "panicked" )
        => \A k \in NamedIndexes(stmt') :
              /\ Cardinality(ByAlias(k)) = 1
              /\ \A i \in ByAlias(k) :
                    /\ syms'[i].typ = "VARIABLE"
                    /\ syms'[i].parent = Last(sym_stack)
                    /\ syms'[i].name =
                          IF stmt'.names[k].asname # NoName THEN stmt'.names[k].asname
                          ELSE BeforeFirstDot(stmt'.names[k].name)
                    /\ syms'[i].is_import_variable
                    /\ syms'[i].evaluations = <<>>
      ]_vars

\* C9 witness: `import a.b.c` has bound `a`.
C9_Witness ==
    /\ stmt.kind = "Import"
    /\ stmt.names = <<Alias(DottedABC, NoName)>>
    /\ Last(syms).name = NameA
    /\ Last(syms).range = AliasRange(pos, 1)
    /\ Last(syms).is_import_variable

\* C9 witness, with an as-name: `import a.b.c as z` has bound `z`.
C9_WitnessAsName ==
    /\ stmt.kind = "Import"
    /\ stmt.names = <<Alias(DottedABC, NameZ)>>
    /\ Last(syms).name = NameZ
    /\ Last(syms).range = AliasRange(pos, 1)

\* C10: every Variable that is a direct child of a Function is one of its
\* parameters.
C10_ScopeLaw ==
    \A i \in 1..Len(syms) :
        ( syms[i].typ = "VARIABLE" /\ syms[i].parent # NoSym
          /\ syms[syms[i].parent].typ = "FUNCTION" )
        => syms[i].is_parameter

\* How often x occurs in a sequence.
Count(seq, x) == Cardinality({k \in 1..Len(seq) : seq[k] = x})

\* The pass on file-symbol f got no syntax tree: it published instead of walking.
NoTree(f) == \E k \in 1..Len(published) : published[k][1] = f

\* The pass on Cur is past the walk (or past the publication that replaces it).
PastWalk ==
    \/ pc \in {"on_done", "set_done"}
    \/ pc = "returned" /\ sym_stack # <<>> /\ syms[Cur].typ \in {"PACKAGE", "FILE"}

\* C11: a run of load_arch on a Package or Module has enqueued its file-symbol
\* for the arch-eval phase exactly once when the walk is over, before the
\* completion hook runs and before the status becomes Done, and not during the
\* walk; this also when the file manager delivers no syntax tree, where the
\* pass has published the diagnostics and added no child.
C11_EnqueuedOnce ==
    /\ PastWalk => Count(rebuild_arch_eval, Cur) = 1
    /\ pc = "on_done" =>
           /\ <<"on_done", Cur>> \notin Range(hooks)
           /\ build_status[Cur] = "IN_PROGRESS"
    /\ pc = "walk" => Count(rebuild_arch_eval, Cur) = 0
    /\ (PastWalk /\ NoTree(Cur)) => Kids(Cur) = {}

\* What load_arch does where C11 speaks: the file-symbol is enqueued exactly
\* once when a tree was walked, and not at all when there was no tree.
C11_EnqueuedOnceWithTree ==
    /\ (PastWalk /\ ~NoTree(Cur)) => Count(rebuild_arch_eval, Cur) = 1
    /\ (PastWalk /\ NoTree(Cur)) =>
           /\ Count(rebuild_arch_eval, Cur) = 0
           /\ Kids(Cur) = {}
    /\ pc = "walk" => Count(rebuild_arch_eval, Cur) = 0

\* The step that ends the walk of a tree: deferred exports, then the enqueue.
EndWalkStep == pc = "walk" /\ pc' = "on_done"

\* The `__all__` Variables of the graph whose first evaluation is a list.
ExportLists ==
    {a \in 1..Len(syms) :
        /\ syms[a].name = ALL_NAME
        /\ syms[a].evaluations # <<>>
        /\ syms[a].evaluations[1].value.tag = "LIST"}

\* The names listed by the top-level `__all__` lists of string literals of f.
ListedNames(f) ==
    UNION {{e.value : e \in Range(syms[a].evaluations[1].value.items)} :
              a \in {a \in ExportLists :
                        /\ syms[a].parent = f
                        /\ \A e \in Range(syms[a].evaluations[1].value.items) : e.str}}

\* What the end of the walk creates is placeholders: Variables of the
\* file-symbol, for names without a symbol after the walk, one per name.
PlaceholdersOnlyForMissing ==
    /\ \A i \in Created :
          /\ syms'[i].typ = "VARIABLE"
          /\ syms'[i].parent = Cur
          /\ get_content_symbol(syms, Cur, syms'[i].name) = <<>>
    /\ \A i, j \in Created : syms'[i].name = syms'[j].name => i = j

\* C12: in an external module, when the walk is over every name listed by a
\* top-level `__all__` list of string literals has a symbol in the module; a
\* placeholder Variable is created only for a name with no symbol after the
\* walk, at most one per name; and each placeholder carries the range of its
\* own string literal inside the list.
C12_SyntheticExports ==
    [][ ( EndWalkStep /\ syms[Cur].is_external )
        => /\ \A n \in ListedNames(Cur) : get_content_symbol(syms', Cur, n) # <<>>
           /\ PlaceholdersOnlyForMissing
           /\ \A i \in Created : \E a \in ExportLists :
                  LET e == syms[a].evaluations[1] IN
                  \E k \in 1..Len(e.value.items) :
                      /\ e.value.items[k] = StrLit(syms'[i].name)
                      /\ syms'[i].range = LiteralRange(e.range[1], k)
      ]_vars

\* What the end of the walk does where C12 speaks: the listed names get their
\* symbols and the placeholders are one per missing name, but each placeholder
\* carries the range of the evaluation its list comes from, the same for all
\* the names of one list; a module of the workspace gets no placeholder.
C12_PlaceholdersAtEvaluationRange ==
    [][ /\ ( EndWalkStep /\ syms[Cur].is_external )
           => /\ \A n \in ListedNames(Cur) : get_content_symbol(syms', Cur, n) # <<>>
              /\ PlaceholdersOnlyForMissing
              /\ \A i \in Created : \E a \in ExportLists :
                     LET e == syms[a].evaluations[1] IN
                     /\ StrLit(syms'[i].name) \in Range(e.value.items)
                     /\ syms'[i].range = e.range
        /\ ( EndWalkStep /\ ~syms[Cur].is_external ) => Created = {}
      ]_vars

\* load_arch on a Package or Module has returned success.
ReturnedSuccess ==
    pc = "returned" /\ sym_stack # <<>> /\ syms[Cur].typ \in {"PACKAGE", "FILE"}

\* C13: the diagnostics of the walk (of the evaluator on `__all__`, of the
\* reference following of a wildcard import) are handed to the FileInfo under
\* the Arch phase before the walk and again at the end: when load_arch has
\* returned success, the FileInfo's Arch diagnostics contain every diagnostic
\* of the pass's buffer.
C13_DiagnosticsHanded ==
    ReturnedSuccess => Range(diagnostics) \subseteq Range(file_diagnostics[Cur])

\* What load_arch does where C13 speaks: the FileInfo gets a copy of the buffer
\* once, before the walk, when the buffer of the new pass is empty; it holds no
\* diagnostic at any time, whatever the walk collects.
C13_DiagnosticsHandedBeforeWalkOnly ==
    \A f \in Files : file_diagnostics[f] = <<>>

\* A top-level wildcard import whose resolved target is the importing
\* file-symbol itself.
SelfWildcard ==
    /\ TopLevelWildcard
    /\ stmt'.import_result.found
    /\ stmt'.import_result.symbol = Cur

\* C14: the pass never takes a write borrow on a symbol it holds a read borrow
\* on, so no visit of a statement ends in a borrow panic; in particular a
\* top-level `from M import *` resolved to the importing file-symbol itself,
\* which already has a child, goes through and the walk goes on.
C14_BorrowDiscipline ==
    [][ /\ VisitStep => pc' # "panicked"
        /\ ( SelfWildcard /\ Kids(Cur) # {} ) => pc' = "walk"
      ]_vars

\* What the binder does where C14 speaks: the pass panics in exactly one
\* place, a top-level wildcard import resolved to the importing file-symbol
\* with at least one of its names let through by the filter; the statement
\* then binds nothing.
C14_PanicOnlyOnSelfWildcard ==
    [][ VisitStep =>
          /\ pc' = "panicked" <=>
                /\ SelfWildcard
                /\ \E n \in TopLevelNames(Cur) : NameAllowed(NameFilter(syms, Cur), n)
          /\ pc' = "panicked" => syms' = syms
      ]_vars

\* The values of the string-literal elements of a list, in the order of the list.
StringLiteralValues(items) ==
    LET at == SelectSeq([k \in 1..Len(items) |-> k], LAMBDA k : items[k].str)
    IN  [j \in 1..Len(at) |-> items[at[j]].value]

\* The extractor's result on value v is the one C15 gives for v.
ExtractsAsClaimed(v) ==
    LET r == extract_all_symbol_eval_values(v) IN
    CASE v.tag \in {"None", "ANY", "DICT"} -> r.names = <<>> /\ r.parse_error
      [] v.tag = "CONSTANT" ->
            IF v.c.str THEN r.names = <<v.c.value>> /\ ~r.parse_error
            ELSE r.names = <<>> /\ r.parse_error
      [] v.tag \in {"LIST", "TUPLE"} ->
            /\ r.names = StringLiteralValues(v.items)
            /\ r.parse_error <=> \E k \in 1..Len(v.items) : ~v.items[k].str

\* The `__all__` of file-symbol m has a single evaluation, of value Any or Dict.
OpaqueExports(m) ==
    LET alls == get_content_symbol(syms, m, ALL_NAME) IN
    /\ alls # <<>>
    /\ Len(syms[alls[1]].evaluations) = 1
    /\ syms[alls[1]].evaluations[1].value.tag \in {"ANY", "DICT"}

\* C15: for every value of an `__all__` evaluation the extractor gives: no
\* name and parse_error for an absent value, Any or Dict; the string and no
\* parse_error for a string constant; no name and parse_error for another
\* constant; for a list or tuple the values of exactly its string-literal
\* elements, in order, with parse_error if and only if an element is not a
\* string literal. And a top-level wildcard import from a module whose single
\* `__all__` evaluation is Any or Dict binds no name of the module.
C15_ExportsExtractor ==
    [][ /\ \A a \in 1..Len(syms') : \A k \in 1..Len(syms'[a].evaluations) :
               syms'[a].name = ALL_NAME => ExtractsAsClaimed(syms'[a].evaluations[k].value)
        /\ ( /\ TopLevelWildcard
             /\ stmt'.import_result.found
             /\ OpaqueExports(stmt'.import_result.symbol) )
           => /\ ByWildcard = {}
              /\ Cardinality(Created) = Cardinality(NamedIndexes(stmt'))
              /\ dependencies' = dependencies
              /\ pc' = "walk"
      ]_vars

\* C15 witness: the package has visited `from m import *, c` where m has the
\* names `a` and `c` and an `__all__` evaluated to a Dict; it got the Variable
\* of the named alias and none from the wildcard.
C15_Witness ==
    /\ pc = "walk"
    /\ Cur = 1
    /\ stmt.kind = "ImportFrom"
    /\ Len(stmt.names) = 2
    /\ stmt.import_result.found
    /\ stmt.import_result.symbol = 2
    /\ OpaqueExports(2)
    /\ syms[get_content_symbol(syms, 2, ALL_NAME)[1]].evaluations[1].value = DICT
    /\ {NameA, NameC} \subseteq TopLevelNames(2)
    /\ \A i \in Kids(1) : syms[i].range # StmtRange(pos)
    /\ \E i \in Kids(1) : syms[i].range = AliasRange(pos, 2)

\* C15 witness, for a list: m's `__all__` is a list with an element that is not
\* a string literal between two that are, and the wildcard import of the
\* package has bound both names.
C15_WitnessMixedList ==
    /\ pc = "walk"
    /\ Cur = 1
    /\ stmt.kind = "ImportFrom"
    /\ stmt.import_result.symbol = 2
    /\ syms[get_content_symbol(syms, 2, ALL_NAME)[1]].evaluations[1].value =
           LIST(<<StrLit(NameA), NotStr, StrLit(NameC)>>)
    /\ {syms[i].name : i \in {i \in Kids(1) : syms[i].range = StmtRange(pos)}}
           = {NameA, NameC}

====
